---- MODULE Spec2Model ----
(***************************************************************************)
(* A model of explodomatica (src/explodomatica.c): the sample-buffer       *)
(* operations and the composer pipeline of main().                         *)
(*                                                                         *)
(* Numbers.  A C double sample is modelled as a fixed-point integer with   *)
(* Scale units per 1.0; every multiplication and division rounds toward    *)
(* zero, as each floating-point operation rounds to its precision.  The    *)
(* IEEE value NaN (0.0 / 0.0) is the value NaN below; all arithmetic on    *)
(* samples goes through FAdd, FSub, FMulQ, FDiv, FAbs, FGt, FLt, which     *)
(* propagate NaN and make every comparison with NaN false.                 *)
(*                                                                         *)
(* A struct sound is a record [data, nsamples]: data is the allocated      *)
(* storage (its length is the capacity), nsamples the valid length.  C     *)
(* indices are 0-based; At(data, i) reads data[i].                         *)
(***************************************************************************)
EXTENDS Integers, Sequences, FiniteSets, TLC

\* ------------------------------------------------------------------ bounds
\* fixed-point resolution of a sample: units per 1.0
Scale == 1000
\* longest buffer the operation harness draws as an input
MaxLen == 2
\* frames per second (the program's SAMPLERATE is 44100; scaled down so that
\* whole buffers fit in a state)
SAMPLERATE == 10
\* largest value rand() returns (libc's RAND_MAX, scaled down)
RAND_MAX == 63
\* the mask of irand(), 0x0ffffff in the program, scaled down with RAND_MAX
IMask == 31
\* the mask of the reverb delays, 0x0ffff in the program, scaled down
DMask == 15
\* largest seed srand() is given
MaxSeed == 1
\* largest nlayers of an explosion_def (the local array s[] holds 10)
MaxLayers == 4
\* largest preexplosions of an explosion_def
MaxPre == 1
\* largest reverb_early_refls / reverb_late_refls of an explosion_def
MaxEarly == 1
MaxLate == 1

\* --------------------------------------------------------------- doubles
NaN == Scale * Scale * 1000

Quot(a, b) == IF a >= 0 THEN a \div b ELSE 0 - ((0 - a) \div b)

FAdd(x, y) == IF x = NaN \/ y = NaN THEN NaN ELSE x + y
FSub(x, y) == IF x = NaN \/ y = NaN THEN NaN ELSE x - y
\* x * (p / q), q > 0
FMulQ(x, p, q) == IF x = NaN THEN NaN ELSE Quot(x * p, q)
\* x * y, both samples
FMul(x, y) == IF x = NaN \/ y = NaN THEN NaN ELSE Quot(x * y, Scale)
\* x / y, both samples; y = 0 is IEEE division by zero (0/0 = NaN; a
\* non-zero x over 0 is an infinity, which no caller below can produce
\* because the divisor is 1.001 times the largest |x|)
FDiv(x, y) ==
    IF x = NaN \/ y = NaN THEN NaN
    ELSE IF y = 0 THEN NaN
    ELSE Quot(x * Scale, y)
FAbs(x) == IF x = NaN THEN NaN ELSE IF x < 0 THEN 0 - x ELSE x
FGt(x, y) == x # NaN /\ y # NaN /\ x > y
FLt(x, y) == x # NaN /\ y # NaN /\ x < y

\* ---------------------------------------------------------- struct sound
Sound(d, n) == [data |-> d, nsamples |-> n]
At(data, i) == data[i + 1]
Cap(s) == Len(s.data)
Zeros(n) == [i \in 1..n |-> 0]
\* a struct sound * that is NULL
NULL == [data |-> <<>>, nsamples |-> 0 - 1]

\* What undefined behaviour can produce: g is the value a read one past the
\* allocated storage returns, keep says whether a value stored one past the
\* allocated storage is still there when it is read back.
Garbage == {NaN, 3 * Scale}
UB == [g : Garbage, keep : BOOLEAN]

\* s->data[i] as the build reads it: garbage beyond the allocation
Rd(s, i, u) == IF i < Cap(s) THEN At(s.data, i) ELSE u.g

alloc_sound(nsamples) == Sound(Zeros(nsamples), 0)

seconds_to_frames(ms) == (ms * SAMPLERATE) \div 1000

\* ------------------------------------------------------------- libc rand
\* rand(): a linear congruential generator over 0..RAND_MAX; the state is the
\* value last returned.  srand(seed) sets the state.
srand(seed) == seed % (RAND_MAX + 1)
rand(r) == (r * 5 + 3) % (RAND_MAX + 1)
\* the state after k calls of rand(); the k-th call returns it
RECURSIVE randn(_, _)
randn(r, k) == IF k <= 0 THEN r ELSE randn(rand(r), k - 1)

\* drand(), given the value v that its rand() call returned
drand(v) == Quot(v * Scale, RAND_MAX)
\* irand(n), given the value v that its rand() call returned
irand(n, v) == (n * (v % (IMask + 1))) \div IMask

\* ------------------------------------------------------ buffer operations
\* an add_sound whose length is that of s1 alone
add_sound_short(s1, s2) ==
    LET n == s1.nsamples
        a(i) == IF i < s1.nsamples THEN FAdd(0, At(s1.data, i)) ELSE 0
        b(i) == IF i < s2.nsamples THEN FAdd(a(i), At(s2.data, i)) ELSE a(i)
    IN  Sound([k \in 1..n |-> b(k - 1)], n)

add_sound(s1, s2) ==
    LET n == IF s2.nsamples > s1.nsamples THEN s2.nsamples ELSE s1.nsamples
        a(i) == IF i < s1.nsamples THEN FAdd(0, At(s1.data, i)) ELSE 0
        b(i) == IF i < s2.nsamples THEN FAdd(a(i), At(s2.data, i)) ELSE a(i)
    IN  Sound([k \in 1..n |-> b(k - 1)], n)

accumulate_sound(acc, inc) == add_sound(acc, inc)

\* make_noise(nsamples) with the generator in state r: sample i is drawn by
\* the (i+1)-th call of rand()
make_noise(nsamples, r) ==
    Sound([k \in 1..nsamples |-> 2 * drand(randn(r, k)) - Scale], nsamples)

fadeout(s, nsamples) ==
    LET factor(i) == Scale - Quot(i * Scale, nsamples)
    IN  Sound([k \in 1..Cap(s) |->
                 IF k - 1 < nsamples THEN FMul(s.data[k], factor(k - 1))
                 ELSE s.data[k]],
              s.nsamples)

\* the loop of sliding_low_pass from sample i on; o is o->data[0 .. i-1]
RECURSIVE low_pass_loop(_, _, _, _, _)
low_pass_loop(s, alpha1, alpha2, o, i) ==
    IF i >= s.nsamples THEN o
    ELSE LET a == FAdd(FMul(Quot(i * Scale, s.nsamples), alpha2 - alpha1),
                       alpha1)
             alpha == FMul(a, a)
             prev == o[i]
             cur == FAdd(prev, FMul(alpha, FSub(At(s.data, i), prev)))
         IN  low_pass_loop(s, alpha1, alpha2, Append(o, cur), i + 1)

\* alpha1, alpha2 are doubles in Scale units.  The output storage holds
\* s->nsamples samples; o->data[0] = s->data[0] is executed even when that is 0.
sliding_low_pass(s, alpha1, alpha2, u) ==
    IF s.nsamples = 0 THEN Sound(<<>>, 0)
    ELSE Sound(low_pass_loop(s, alpha1, alpha2, <<Rd(s, 0, u)>>, 1), s.nsamples)

sliding_low_pass_inplace(s, alpha1, alpha2, u) ==
    sliding_low_pass(s, alpha1, alpha2, u)

\* x is the rational xn / xd; x1, x2 are whole sample positions
interpolate(xn, xd, x1, y1, x2, y2) ==
    IF x2 = x1 THEN FMulQ(FAdd(y1, y2), 1, 2)
    ELSE FAdd(FMulQ(FSub(y2, y1), xn - x1 * xd, xd * (x2 - x1)), y1)

\* the number of output samples change_speed allocates
change_speed_nsamples(s, factor) == Quot(s.nsamples * Scale, factor)

\* factor is a double in Scale units, factor > 0.  sample_point is the
\* rational (i * s->nsamples) / nsamples.
change_speed(s, factor, u) ==
    LET nsamples == change_speed_nsamples(s, factor)
        first == Rd(s, 0, u)
        sp1(i) == (i * s.nsamples) \div nsamples
        sp2(i) == sp1(i) + 1
        out(i) ==
            IF i = 0 THEN first
            ELSE interpolate(i * s.nsamples, nsamples,
                             sp1(i), Rd(s, sp1(i), u),
                             sp2(i), Rd(s, sp2(i), u))
    IN  IF nsamples = 0
        THEN \* o->data[0] is stored past the empty allocation, o->nsamples = 1
             Sound(<<IF u.keep THEN first ELSE u.g>>, 1)
        ELSE Sound([k \in 1..nsamples |-> out(k - 1)], nsamples)

change_speed_inplace(s, factor, u) == change_speed(s, factor, u)

copy_sound(s) == Sound(SubSeq(s.data, 1, s.nsamples), s.nsamples)

\* the largest |sample| renormalize finds
RECURSIVE renormalize_max(_, _, _)
renormalize_max(s, i, max) ==
    IF i >= s.nsamples THEN max
    ELSE renormalize_max(s, i + 1,
            IF FGt(FAbs(At(s.data, i)), max) THEN FAbs(At(s.data, i)) ELSE max)

\* the divisor 1.001 * max
renormalize_divisor(s) == FMulQ(renormalize_max(s, 0, 0), 1001, 1000)

\* the second loop of renormalize, dividing by d
renormalize_by(s, d) ==
    Sound([k \in 1..Cap(s) |->
             IF k - 1 < s.nsamples THEN FDiv(s.data[k], d) ELSE s.data[k]],
          s.nsamples)

renormalize(s) == renormalize_by(s, renormalize_divisor(s))

amplify_in_place(s, gain) ==
    LET clamp(y) == IF FGt(y, Scale) THEN Scale
                    ELSE IF FLt(y, 0 - Scale) THEN 0 - Scale ELSE y
    IN  Sound([k \in 1..Cap(s) |->
                 IF k - 1 < s.nsamples THEN clamp(FMul(s.data[k], gain))
                 ELSE s.data[k]],
              s.nsamples)

\* the loop of delay_effect_in_place, from i down to 0, on the storage data
RECURSIVE delay_loop(_, _, _, _)
delay_loop(data, nsamples, delay_samples, i) ==
    IF i < 0 THEN data
    ELSE LET source == i - delay_samples
             nd == IF nsamples > source
                   THEN IF source > 0
                        THEN [data EXCEPT ![i + 1] = At(data, source)]
                        ELSE [data EXCEPT ![i + 1] = 0]
                   ELSE data
         IN  delay_loop(nd, nsamples, delay_samples, i - 1)

delay_effect_in_place(s, delay_samples) ==
    Sound(delay_loop(s.data, s.nsamples, delay_samples, s.nsamples - 1),
          s.nsamples)

\* fabs(x) < 0.00001
Silent(x) == x # NaN /\ FAbs(x) * 100000 < Scale

\* the loop of trim_trailing_silence, from i down to 0; n is s->nsamples so far
RECURSIVE trim_loop(_, _, _)
trim_loop(data, i, n) ==
    IF i < 0 THEN n
    ELSE trim_loop(data, i - 1, IF Silent(At(data, i)) THEN n - 1 ELSE n)

trim_trailing_silence(s) ==
    Sound(s.data, trim_loop(s.data, s.nsamples - 1, s.nsamples))

\* --------------------------------------------- which samples an operation touches
\* the indices of s->data that change_speed reads (o->data[0] = s->data[0],
\* then sp1 and sp2 of every output sample)
change_speed_reads(s, factor) ==
    LET nsamples == change_speed_nsamples(s, factor)
        sp1(i) == (i * s.nsamples) \div nsamples
    IN  {0} \cup UNION {{sp1(i), sp1(i) + 1} : i \in 1..(nsamples - 1)}

\* the indices of o->data that change_speed writes; o holds
\* change_speed_nsamples(s, factor) samples
change_speed_writes(s, factor) ==
    {0} \cup 1..(change_speed_nsamples(s, factor) - 1)

\* the indices sliding_low_pass reads of s->data, and writes of o->data
sliding_low_pass_reads(s) == {0} \cup 1..(s.nsamples - 1)
sliding_low_pass_writes(s) == {0} \cup 1..(s.nsamples - 1)

\* the indices the loops over 0 .. s->nsamples - 1 touch
loop_indices(s) == 0..(s.nsamples - 1)

\* ------------------------------------------------------------------ state
VARIABLES
    s,       \* the buffer operated on; in main(), the explosion s
    old,     \* harness: s before the last operation
    inc,     \* harness: the second argument of the last accumulate_sound
    op,      \* harness: the last operation, [name, arg]
    phase,   \* harness: "input", "once" or "twice"
    reads,   \* harness: indices of the input storage the last operation read
    writes,  \* harness: indices of the output storage it wrote
    outcap,  \* harness: the capacity of that output storage
    divzero, \* harness: the last operation divided by zero
    stage,   \* main(): the last stage completed
    e,       \* main(): the explosion_def
    rng,     \* main(): the state of rand()
    pe,      \* main(): the pre-explosion bed, or NULL
    s2,      \* main(): the reverberated sound
    layers,  \* main(): per layer of the main explosion, the passes applied
    out      \* main(): the samples handed to save_file

vars == <<s, old, inc, op, phase, reads, writes, outcap, divzero,
          stage, e, rng, pe, s2, layers, out>>
mainvars == <<stage, e, rng, pe, s2, layers, out>>
opvars == <<old, inc, op, phase, reads, writes, outcap, divzero>>

\* the explosion_def e of the program (src line 41): durations in
\* milliseconds, the low pass and speed factors in Scale units
DefaultDef ==
    [duration |-> 4000, nlayers |-> 4, preexplosions |-> 1,
     preexplosion_delay |-> 200,
     preexplosion_low_pass_factor |-> Scale \div 2,
     final_speed_factor |-> Scale \div 4,
     reverb_early_refls |-> 10, reverb_late_refls |-> 50]

\* ------------------------------------------------- the operation harness
SampleVals == {0 - Scale, 0, Scale \div 2}
\* freshly built buffers: the storage holds exactly nsamples samples
Bufs == {Sound(d, Len(d)) : d \in UNION {[1..n -> SampleVals] : n \in 0..MaxLen}}
Factors == {Scale \div 4, Scale, 2 * Scale, 3 * Scale}
Alphas == {<<Scale \div 2, Scale \div 2>>, <<Scale \div 2, Scale \div 5>>,
           <<Scale, 0>>}
Gains == {Scale \div 2, 2 * Scale}

OpInit ==
    /\ s \in Bufs
    /\ old = s
    /\ inc = NULL
    /\ op = [name |-> "init", arg |-> 0]
    /\ phase = "input"
    /\ reads = {}
    /\ writes = {}
    /\ outcap = 0
    /\ divzero = FALSE
    /\ stage = "Idle"
    /\ e = DefaultDef
    /\ rng = 0
    /\ pe = NULL
    /\ s2 = NULL
    /\ layers = <<>>
    /\ out = <<>>

\* an operation is applied to the input, and may be applied once more to
\* its own result
MayApply(name) ==
    \/ phase = "input"
    \/ phase = "once" /\ op.name = name
Applied(name, arg) ==
    /\ op' = [name |-> name, arg |-> arg]
    /\ phase' = IF phase = "input" THEN "once" ELSE "twice"
    /\ old' = s
    /\ UNCHANGED mainvars

Call_delay_effect_in_place ==
    /\ MayApply("delay_effect_in_place")
    /\ \E d \in 0..(s.nsamples + 1) :
          /\ s' = delay_effect_in_place(s, d)
          /\ reads' = {i - d : i \in {j \in loop_indices(s) : j - d > 0}}
          /\ Applied("delay_effect_in_place", d)
    /\ writes' = loop_indices(s)
    /\ outcap' = Cap(s)
    /\ UNCHANGED <<inc, divzero>>

Call_trim_trailing_silence ==
    /\ MayApply("trim_trailing_silence")
    /\ s' = trim_trailing_silence(s)
    /\ reads' = loop_indices(s)
    /\ writes' = {}
    /\ outcap' = Cap(s)
    /\ Applied("trim_trailing_silence", 0)
    /\ UNCHANGED <<inc, divzero>>

Call_renormalize ==
    /\ MayApply("renormalize")
    /\ s' = renormalize(s)
    /\ reads' = loop_indices(s)
    /\ writes' = loop_indices(s)
    /\ outcap' = Cap(s)
    /\ divzero' = (s.nsamples > 0 /\ renormalize_divisor(s) = 0)
    /\ Applied("renormalize", 0)
    /\ UNCHANGED inc

Call_fadeout ==
    /\ MayApply("fadeout")
    /\ s' = fadeout(s, s.nsamples)
    /\ reads' = loop_indices(s)
    /\ writes' = loop_indices(s)
    /\ outcap' = Cap(s)
    /\ Applied("fadeout", s.nsamples)
    /\ UNCHANGED <<inc, divzero>>

Call_amplify_in_place ==
    /\ MayApply("amplify_in_place")
    /\ \E gain \in Gains :
          /\ s' = amplify_in_place(s, gain)
          /\ Applied("amplify_in_place", gain)
    /\ reads' = loop_indices(s)
    /\ writes' = loop_indices(s)
    /\ outcap' = Cap(s)
    /\ UNCHANGED <<inc, divzero>>

Call_sliding_low_pass ==
    /\ MayApply("sliding_low_pass")
    /\ \E a \in Alphas, u \in UB :
          /\ s' = sliding_low_pass(s, a[1], a[2], u)
          /\ Applied("sliding_low_pass", a[1])
    /\ reads' = sliding_low_pass_reads(s)
    /\ writes' = sliding_low_pass_writes(s)
    /\ outcap' = s.nsamples
    /\ UNCHANGED <<inc, divzero>>

Call_change_speed ==
    /\ MayApply("change_speed")
    /\ \E factor \in Factors, u \in UB :
          /\ factor >= Scale \/ s.nsamples <= MaxLen
          /\ s' = change_speed(s, factor, u)
          /\ reads' = change_speed_reads(s, factor)
          /\ writes' = change_speed_writes(s, factor)
          /\ outcap' = change_speed_nsamples(s, factor)
          /\ Applied("change_speed", factor)
    /\ UNCHANGED <<inc, divzero>>

Call_accumulate_sound ==
    /\ MayApply("accumulate_sound")
    /\ \E b \in Bufs :
          /\ s' = accumulate_sound(s, b)
          /\ inc' = b
          /\ reads' = loop_indices(s)
          /\ Applied("accumulate_sound", b.nsamples)
    /\ writes' = loop_indices(s')
    /\ outcap' = s'.nsamples
    /\ UNCHANGED divzero

OpNext ==
    \/ Call_delay_effect_in_place
    \/ Call_trim_trailing_silence
    \/ Call_renormalize
    \/ Call_fadeout
    \/ Call_amplify_in_place
    \/ Call_sliding_low_pass
    \/ Call_change_speed
    \/ Call_accumulate_sound

Spec == OpInit /\ [][OpNext]_vars

\* ------------------------------------------------------------ the composer
\* the number of times a loop "for (j = 0; j < iters; j++)" runs its body
Times(iters) == IF iters < 0 THEN 0 ELSE iters

\* make_explosion: the fade-out passes of layer i
fade_iters(i) == IF i + 1 > 3 THEN 3 ELSE i + 1

\* make_explosion: the low-pass and renormalize passes of layer i
lowpass_iters(i) == IF 3 - i < 0 THEN 1 ELSE 3 - i

RECURSIVE fade_passes(_, _)
fade_passes(t, j) ==
    IF j <= 0 THEN t ELSE fade_passes(fadeout(t, t.nsamples), j - 1)

RECURSIVE lowpass_passes(_, _, _, _, _)
lowpass_passes(t, a1, a2, j, u) ==
    IF j <= 0 THEN t
    ELSE lowpass_passes(renormalize(sliding_low_pass_inplace(t, a1, a2, u)),
                        a1, a2, j - 1, u)

\* the body of make_explosion's first loop for layer i, with rand() in state
\* r: the layer s[i], and how many passes of each kind were applied to it
make_layer(i, ms, nlayers, r, u) ==
    LET noise == make_noise(seconds_to_frames(ms), r)
        t1 == IF i > 0 THEN change_speed_inplace(noise, i * 2 * Scale, u)
              ELSE noise
        t2 == fade_passes(t1, Times(fade_iters(i)))
        a1 == Quot((i + 1) * Scale, nlayers)
        a2 == Quot(i * Scale, nlayers)
        t3 == lowpass_passes(t2, a1, a2, Times(lowpass_iters(i)), u)
    IN  [snd |-> t3, i |-> i,
         fades |-> Times(fade_iters(i)),
         lowpasses |-> Times(lowpass_iters(i))]

\* make_explosion's second loop: s[0] accumulates s[i], s[i+1], ...
RECURSIVE sum_layers(_, _, _)
sum_layers(acc, ls, i) ==
    IF i > Len(ls) THEN acc
    ELSE sum_layers(accumulate_sound(acc, ls[i].snd), ls, i + 1)

\* make_explosion(seconds, nlayers), 1 <= nlayers, with rand() in state r:
\* the sound returned, the state of rand() afterwards, and the layers' record
make_explosion(ms, nlayers, r, u) ==
    LET frames == seconds_to_frames(ms)
        summed(ls) ==
            [snd |-> renormalize(sum_layers(ls[1].snd, ls, 2)),
             rng |-> randn(r, nlayers * frames),
             log |-> [k \in 1..nlayers |->
                        [i |-> ls[k].i, fades |-> ls[k].fades,
                         lowpasses |-> ls[k].lowpasses]]]
    IN  summed([k \in 1..nlayers |->
                 make_layer(k - 1, ms, nlayers, randn(r, (k - 1) * frames), u)])

\* the loop of make_preexplosions, from pre-explosion i on
RECURSIVE preexplosions_loop(_, _, _, _, _)
preexplosions_loop(d, bed, r, i, u) ==
    IF i >= d.preexplosions THEN [snd |-> bed, rng |-> r]
    ELSE LET rest(x) ==
                 LET v == rand(x.rng)
                     offset == irand(seconds_to_frames(d.preexplosion_delay), v)
                     exp == delay_effect_in_place(x.snd, offset)
                 IN  preexplosions_loop(d,
                         renormalize(accumulate_sound(bed, exp)), v, i + 1, u)
         IN  rest(make_explosion(d.duration \div 2, d.nlayers, r, u))

\* make_preexplosions past its early return: the bed is allocated, filled by
\* the loop, low-pass filtered and renormalized
make_preexplosions_bed(d, r, u) ==
    LET frames == seconds_to_frames(d.duration)
        finish(l) ==
            [snd |-> renormalize(sliding_low_pass_inplace(l.snd,
                         d.preexplosion_low_pass_factor,
                         d.preexplosion_low_pass_factor, u)),
             rng |-> l.rng]
    IN  finish(preexplosions_loop(d, Sound(Zeros(frames), frames), r, 0, u))

\* a make_preexplosions without "if (!e->preexplosions) return NULL"
make_preexplosions_noreturn(d, r, u) == make_preexplosions_bed(d, r, u)

make_preexplosions(d, r, u) ==
    IF d.preexplosions = 0 THEN [snd |-> NULL, rng |-> r]
    ELSE make_preexplosions_bed(d, r, u)

\* one reflection of poor_mans_reverb; v is [withverb, echo, rng].  An early
\* reflection filters with (0.5, 0.5), gains by drand() * 0.03 + 0.03 and
\* delays up to 3 * 4410 samples (4410 is SAMPLERATE / 10); a late one filters
\* with (0.5, 0.2), gains by drand() * 0.01 + 0.03 and delays up to
\* 2 * 44100 samples.
reflection(v, late, u) ==
    LET echo2 == sliding_low_pass(v.echo, Scale \div 2,
                     IF late THEN Scale \div 5 ELSE Scale \div 2, u)
        r1 == rand(v.rng)
        gain == FAdd(FMulQ(drand(r1), IF late THEN 1 ELSE 3, 100),
                     Quot(3 * Scale, 100))
        r2 == rand(r1)
        range == IF late THEN 2 * SAMPLERATE ELSE 3 * (SAMPLERATE \div 10)
        delay == (range * (r2 % (DMask + 1))) \div DMask
    IN  [withverb |-> accumulate_sound(v.withverb,
                          delay_effect_in_place(echo2, delay)),
         echo |-> amplify_in_place(v.echo, gain),
         rng |-> r2]

RECURSIVE reflections(_, _, _, _)
reflections(v, n, late, u) ==
    IF n <= 0 THEN v ELSE reflections(reflection(v, late, u), n - 1, late, u)

poor_mans_reverb(snd, early_refls, late_refls, r, u) ==
    LET withverb == Sound(SubSeq(snd.data, 1, snd.nsamples) \o Zeros(snd.nsamples),
                          snd.nsamples * 2)
        v0 == [withverb |-> withverb, echo |-> copy_sound(withverb), rng |-> r]
        v1 == reflections(v0, early_refls, FALSE, u)
        result(v2) == [snd |-> v2.withverb, rng |-> v2.rng]
    IN  result(reflections(v1, late_refls, TRUE, u))

\* the statements of main(), in program order, after "Idle" (nothing run yet)
Stages == <<"Idle", "PreExplosions", "MainExplosion", "Merge", "SpeedChange",
            "Trim1", "Reverb", "Trim2", "Done">>
StageIndex(st) == CHOOSE k \in 1..Len(Stages) : Stages[k] = st

\* the explosion_defs a run is started with
Defs ==
    [duration : {400, 800}, nlayers : 1..MaxLayers, preexplosions : 0..MaxPre,
     preexplosion_delay : {200},
     preexplosion_low_pass_factor : {Scale \div 2},
     final_speed_factor : {Scale \div 4, Scale, 2 * Scale},
     reverb_early_refls : 0..MaxEarly, reverb_late_refls : 0..MaxLate]

MainInit ==
    /\ stage = "Idle"
    /\ e \in Defs
    /\ \E seed \in 0..MaxSeed : rng = srand(seed)
    /\ pe = NULL
    /\ s = NULL
    /\ s2 = NULL
    /\ layers = <<>>
    /\ out = <<>>
    /\ old = NULL
    /\ inc = NULL
    /\ op = [name |-> "main", arg |-> 0]
    /\ phase = "main"
    /\ reads = {}
    /\ writes = {}
    /\ outcap = 0
    /\ divzero = FALSE

\* pe = make_preexplosions(&e)
PreExplosions ==
    /\ stage = "Idle"
    /\ \E u \in UB :
          LET ret(r) == pe' = r.snd /\ rng' = r.rng
          IN  ret(make_preexplosions(e, rng, u))
    /\ stage' = "PreExplosions"
    /\ UNCHANGED <<s, e, s2, layers, out>>
    /\ UNCHANGED opvars

\* s = make_explosion(e.duration, e.nlayers)
MainExplosion ==
    /\ stage = "PreExplosions"
    /\ \E u \in UB :
          LET ret(r) == s' = r.snd /\ rng' = r.rng /\ layers' = r.log
          IN  ret(make_explosion(e.duration, e.nlayers, rng, u))
    /\ stage' = "MainExplosion"
    /\ UNCHANGED <<e, pe, s2, out>>
    /\ UNCHANGED opvars

\* if (pe) { accumulate_sound(s, pe); renormalize(s); }
Merge ==
    /\ stage = "MainExplosion"
    /\ s' = IF pe # NULL THEN renormalize(accumulate_sound(s, pe)) ELSE s
    /\ stage' = "Merge"
    /\ UNCHANGED <<e, rng, pe, s2, layers, out>>
    /\ UNCHANGED opvars

\* change_speed_inplace(s, e.final_speed_factor)
SpeedChange ==
    /\ stage = "Merge"
    /\ \E u \in UB : s' = change_speed_inplace(s, e.final_speed_factor, u)
    /\ stage' = "SpeedChange"
    /\ UNCHANGED <<e, rng, pe, s2, layers, out>>
    /\ UNCHANGED opvars

\* trim_trailing_silence(s)
Trim1 ==
    /\ stage = "SpeedChange"
    /\ s' = trim_trailing_silence(s)
    /\ stage' = "Trim1"
    /\ UNCHANGED <<e, rng, pe, s2, layers, out>>
    /\ UNCHANGED opvars

\* s2 = poor_mans_reverb(s, e.reverb_early_refls, e.reverb_late_refls)
Reverb ==
    /\ stage = "Trim1"
    /\ \E u \in UB :
          LET ret(r) == s2' = r.snd /\ rng' = r.rng
          IN  ret(poor_mans_reverb(s, e.reverb_early_refls,
                                   e.reverb_late_refls, rng, u))
    /\ stage' = "Reverb"
    /\ UNCHANGED <<s, e, pe, layers, out>>
    /\ UNCHANGED opvars

\* trim_trailing_silence(s2)
Trim2 ==
    /\ stage = "Reverb"
    /\ s2' = trim_trailing_silence(s2)
    /\ stage' = "Trim2"
    /\ UNCHANGED <<s, e, rng, pe, layers, out>>
    /\ UNCHANGED opvars

\* save_file(argv[1], s2, 1) writes s2->nsamples samples of s2->data;
\* free_sound(s)
Done ==
    /\ stage = "Trim2"
    /\ out' = SubSeq(s2.data, 1, s2.nsamples)
    /\ s' = Sound(<<>>, 0)
    /\ stage' = "Done"
    /\ UNCHANGED <<e, rng, pe, s2, layers>>
    /\ UNCHANGED opvars

MainNext ==
    \/ PreExplosions
    \/ MainExplosion
    \/ Merge
    \/ SpeedChange
    \/ Trim1
    \/ Reverb
    \/ Trim2
    \/ Done

MainSpec == MainInit /\ [][MainNext]_vars

\* the stage part of MainNext: every step of MainNext is a step of Advance
\* that changes stage, and MainNext is enabled exactly when Advance is (the
\* statements of main() have no condition but the one before them having run)
Advance == stage # "Done" /\ stage' = Stages[StageIndex(stage) + 1]

\* main() is straight-line code: every statement is eventually executed
MainLive == MainInit /\ [][MainNext]_vars /\ WF_stage(Advance)

\* ----------------------------------------------------------------- claims
OpNames == {"delay_effect_in_place", "trim_trailing_silence", "renormalize",
            "fadeout", "amplify_in_place", "sliding_low_pass", "change_speed",
            "accumulate_sound"}
Max2(a, b) == IF a > b THEN a ELSE b
Min2(a, b) == IF a < b THEN a ELSE b
\* sample i of b, a sample beyond the length counting as 0
SampleOrZero(b, i) == IF i < b.nsamples THEN At(b.data, i) ELSE 0
AllZero(b) == \A i \in loop_indices(b) : At(b.data, i) = 0
\* the valid samples of b
Valid(b) == SubSeq(b.data, 1, b.nsamples)
InUnit(x) == x # NaN /\ 0 - Scale <= x /\ x <= Scale

\* C1: for a buffer of length n >= 1, delay_effect_in_place(buf, 0) leaves
\* every sample unchanged, and delay_effect_in_place(buf, n) keeps the length
\* n and sets every sample to 0.
C1_DelayZeroIdentityFullShiftSilence ==
    (op.name = "delay_effect_in_place" /\ old.nsamples >= 1) =>
        /\ op.arg = 0 => s = old
        /\ op.arg = old.nsamples => (s.nsamples = old.nsamples /\ AllZero(s))

\* (index of the last non-silent sample) + 1, or 0 if every sample is silent
LengthWithoutTrailingSilence(b) ==
    LET loud == {i \in loop_indices(b) : ~Silent(At(b.data, i))}
    IN  IF loud = {} THEN 0 ELSE (CHOOSE i \in loud : \A j \in loud : j <= i) + 1

\* C2: trim_trailing_silence shortens the buffer by the run of silent samples
\* at its end only: the new length is the index of the last non-silent sample
\* plus one (0 if all are silent); silence before a non-silent sample never
\* shortens it.
C2_TrimRemovesOnlyTrailingRun ==
    op.name = "trim_trailing_silence" =>
        s.nsamples = LengthWithoutTrailingSilence(old)

\* C3: trim_trailing_silence is idempotent: applied a second time, it leaves
\* the length as the first application left it.
C3_TrimIdempotent ==
    (op.name = "trim_trailing_silence" /\ phase = "twice") =>
        s.nsamples = old.nsamples

\* the largest magnitude among the valid samples of b (0 for none)
MaxAbs(b) ==
    LET mags == {FAbs(At(b.data, i)) : i \in loop_indices(b)} \ {NaN}
    IN  IF mags = {} THEN 0 ELSE CHOOSE m \in mags : \A k \in mags : k <= m

\* C5: renormalize of a buffer whose largest magnitude M is 0 divides by no
\* zero divisor and changes no sample; when M > 0 every sample is divided by
\* 1.001 * M.
C5_RenormalizeZeroIsNoOp ==
    op.name = "renormalize" =>
        /\ MaxAbs(old) = 0 => (~divzero /\ s = old)
        /\ MaxAbs(old) > 0 =>
              \A i \in loop_indices(old) :
                  At(s.data, i) = FDiv(At(old.data, i),
                                       FMulQ(MaxAbs(old), 1001, 1000))

\* C6: every operation applied to a zero-length buffer returns a zero-length
\* buffer and reads and writes no sample index and does not fault; this holds
\* in particular of sliding_low_pass and change_speed.
C6_ZeroLengthIsNoOp ==
    (/\ op.name \in OpNames
     /\ old.nsamples = 0
     /\ op.name = "accumulate_sound" => inc.nsamples = 0) =>
        /\ s.nsamples = 0
        /\ reads = {}
        /\ writes = {}
        /\ ~divzero

\* C7: for a source of length n >= 1 and a factor > 0, every index change_speed
\* reads of the source (sp1 and sp2 of every output sample) lies in 0 .. n-1,
\* and the output length is floor(n / factor).
C7_ChangeSpeedReadsInBounds ==
    (op.name = "change_speed" /\ old.nsamples >= 1) =>
        /\ reads \subseteq 0..(old.nsamples - 1)
        /\ s.nsamples = (old.nsamples * Scale) \div op.arg

\* C9: accumulate_sound(acc, inc) leaves acc with length max(len(acc),
\* len(inc)) and sample i equal to acc_old[i] + inc[i], a sample missing from
\* the shorter buffer counting as 0; inc keeps its length; accumulating an
\* all-zero buffer of the same length leaves acc's samples as they were.
C9_AccumulateIsMix ==
    op.name = "accumulate_sound" =>
        /\ s.nsamples = Max2(old.nsamples, inc.nsamples)
        /\ \A i \in loop_indices(s) :
              At(s.data, i) = FAdd(SampleOrZero(old, i), SampleOrZero(inc, i))
        /\ inc.nsamples = op.arg
        /\ (inc.nsamples = old.nsamples /\ AllZero(inc)) =>
              Valid(s) = Valid(old)

\* a shorter acc has accumulated a longer inc, both starting with a sound
C9_Witness ==
    /\ op.name = "accumulate_sound"
    /\ 1 <= old.nsamples
    /\ old.nsamples < inc.nsamples
    /\ At(old.data, 0) # 0
    /\ At(inc.data, 0) # 0

\* C4: the samples handed to the file writer at the end of the pipeline are
\* all in [-1, 1].
C4_OutputInUnitRange ==
    stage = "Done" => \A k \in 1..Len(out) : InUnit(out[k])

\* C10: in make_explosion, layer i gets min(i+1, 3) fade-outs and max(3-i, 1)
\* passes of sliding_low_pass_inplace followed by renormalize, so every layer
\* is filtered and renormalized at least once.
C10_LayerPassCounts ==
    \A k \in 1..Len(layers) :
        /\ layers[k].fades = Min2(layers[k].i + 1, 3)
        /\ layers[k].lowpasses = Max2(3 - layers[k].i, 1)

\* C8: a run passes through PreExplosions, MainExplosion, Merge, SpeedChange,
\* Trim1, Reverb, Trim2, Done in that order, each once and never going back,
\* and reaches Done; PreExplosions yields a bed iff preexplosions # 0, and
\* Merge accumulates the bed and renormalizes iff there is a bed.
C8_StagesInOrderToDone ==
    /\ [][StageIndex(stage') = StageIndex(stage) + 1]_vars
    /\ <>(stage = "Done")
    /\ [](stage # "Idle" => (pe # NULL <=> e.preexplosions # 0))
    /\ [][stage' = "Merge" =>
            IF e.preexplosions # 0
            THEN pe # NULL /\ s' = renormalize(accumulate_sound(s, pe))
            ELSE s' = s]_vars

\* a run with a pre-explosion bed has handed its samples to the file writer
C8_Witness ==
    /\ stage = "Done"
    /\ e.preexplosions # 0
    /\ pe # NULL
    /\ Len(out) > 0

====
